---- MODULE Spec2Model ----
(***************************************************************************)
(* Model of torch/_library/infer_schema.py: infer_schema turns a function  *)
(* signature into an operator schema string; has_tensor_arg and            *)
(* get_device_arg_id inspect such a string.                                *)
(*                                                                         *)
(* Python str values are TLA+ strings (sequences of characters); the       *)
(* str methods the code uses are the operators of the first section.       *)
(* A Python type is a sequence of constructor names in prefix order:       *)
(*   Tensor                      <<"Tensor">>                              *)
(*   typing.Optional[Tensor]     <<"Optional", "Tensor">>                  *)
(*   typing.Sequence[Optional[Tensor]]  <<"Sequence","Optional","Tensor">> *)
(*   typing.Tuple[int, ...]      <<"Tuple", "int", "...">>                 *)
(*   inspect.Parameter.empty     <<"empty">>                               *)
(*   None (as return annotation) <<"None">>                                *)
(* Annotations are given as type objects; an annotation written as a       *)
(* string is turned into one by eval (lines 57-58) before any of the code  *)
(* modelled here looks at it.                                              *)
(***************************************************************************)
EXTENDS Integers, Sequences, FiniteSets, TLC

(***************************************************************************)
(* Python str methods                                                      *)
(***************************************************************************)

\* s[i] as a one-character string (1-based)
CharAt(s, i) == SubSeq(s, i, i)

\* s.startswith(prefix)
StartsWith(s, prefix) ==
    /\ Len(prefix) <= Len(s)
    /\ SubSeq(s, 1, Len(prefix)) = prefix

\* s.find(sub, from): the least 1-based index >= from where sub occurs, 0 if none
RECURSIVE FindFrom(_, _, _)
FindFrom(s, sub, from) ==
    IF from + Len(sub) - 1 > Len(s) THEN 0
    ELSE IF SubSeq(s, from, from + Len(sub) - 1) = sub THEN from
    ELSE FindFrom(s, sub, from + 1)

\* sub in s
Contains(s, sub) == FindFrom(s, sub, 1) # 0

\* s.split(sep) for a non-empty separator: every piece, empty ones included
RECURSIVE Split(_, _)
Split(s, sep) ==
    LET i == FindFrom(s, sep, 1) IN
    IF i = 0 THEN <<s>>
    ELSE <<SubSeq(s, 1, i - 1)>> \o Split(SubSeq(s, i + Len(sep), Len(s)), sep)

\* s.lstrip() / s.rstrip() / s.strip(); the schema's only whitespace is " "
RECURSIVE LStrip(_)
LStrip(s) == IF Len(s) > 0 /\ CharAt(s, 1) = " " THEN LStrip(Tail(s)) ELSE s

RECURSIVE RStrip(_)
RStrip(s) ==
    IF Len(s) > 0 /\ CharAt(s, Len(s)) = " "
    THEN RStrip(SubSeq(s, 1, Len(s) - 1)) ELSE s

Strip(s) == RStrip(LStrip(s))

\* sep.join(parts)
RECURSIVE Join(_, _)
Join(sep, parts) ==
    IF parts = <<>> THEN ""
    ELSE IF Len(parts) = 1 THEN parts[1]
    ELSE parts[1] \o sep \o Join(sep, Tail(parts))

Digit(d) == CharAt("0123456789", d + 1)

\* str(n) for a natural number
RECURSIVE NatToStr(_)
NatToStr(n) == IF n < 10 THEN Digit(n) ELSE NatToStr(n \div 10) \o Digit(n % 10)

\* str(n) for an int
IntToStr(n) == IF n < 0 THEN "-" \o NatToStr(0 - n) ELSE NatToStr(n)

\* str(x) for the float x = h/2
FloatToStr(h) ==
    LET a == IF h < 0 THEN 0 - h ELSE h IN
    (IF h < 0 THEN "-" ELSE "") \o NatToStr(a \div 2) \o "."
        \o (IF a % 2 = 0 THEN "0" ELSE "5")

(***************************************************************************)
(* Types and the two type tables                                           *)
(***************************************************************************)

\* typing.Optional[t], typing.List[t], typing.Sequence[t]
OptionalOf(t) == <<"Optional">> \o t
ListOf(t)     == <<"List">> \o t
SequenceOf(t) == <<"Sequence">> \o t

\* derived_seq_types(typ)
derived_seq_types(typ) == {SequenceOf(typ), ListOf(typ)}

\* derived_types(...): the (python type, schema type) pairs of one base type
derived_types(base_type, cpp_type, list_base, optional_base_list, optional_list_base) ==
    {<<base_type, cpp_type>>, <<OptionalOf(base_type), cpp_type \o "?">>}
    \cup (IF list_base
          THEN {<<seq_typ, cpp_type \o "[]">> : seq_typ \in derived_seq_types(base_type)}
          ELSE {})
    \cup (IF optional_base_list
          THEN {<<seq_typ, cpp_type \o "?[]">> :
                    seq_typ \in derived_seq_types(OptionalOf(base_type))}
          ELSE {})
    \cup (IF optional_list_base
          THEN {<<OptionalOf(seq_typ), cpp_type \o "[]?">> :
                    seq_typ \in derived_seq_types(base_type)}
          ELSE {})

\* get_supported_param_types(): the dict as its set of (key, value) pairs
get_supported_param_types ==
    LET data == {
            <<<<"Tensor">>, "Tensor", TRUE, TRUE, FALSE>>,
            <<<<"int">>, "SymInt", TRUE, FALSE, TRUE>>,
            <<<<"float">>, "float", TRUE, FALSE, TRUE>>,
            <<<<"bool">>, "bool", TRUE, FALSE, TRUE>>,
            <<<<"str">>, "str", FALSE, FALSE, FALSE>>,
            <<<<"Number">>, "Scalar", TRUE, FALSE, FALSE>>,
            <<<<"dtype">>, "ScalarType", FALSE, FALSE, FALSE>>,
            <<<<"device">>, "Device", FALSE, FALSE, FALSE>> }
    IN UNION {derived_types(line[1], line[2], line[3], line[4], line[5]) : line \in data}

SUPPORTED_PARAM_TYPES == get_supported_param_types

SUPPORTED_RETURN_TYPES ==
    { <<<<"Tensor">>, "Tensor">>,
      <<ListOf(<<"Tensor">>), "Tensor[]">>,
      <<<<"int">>, "SymInt">>,
      <<<<"float">>, "float">>,
      <<<<"bool">>, "bool">>,
      <<<<"Number">>, "Scalar">> }

\* d.keys() and d[k] of a dict given as its set of pairs
Keys(d) == {kv[1] : kv \in d}
Lookup(d, k) == (CHOOSE kv \in d : kv[1] = k)[2]

\* whether the type object has an __origin__ attribute (typing generics do,
\* plain classes and inspect's empty marker do not)
HasOrigin(t) == t[1] \in {"Optional", "List", "Sequence", "Tuple", "Union"}

\* t.__origin__ is tuple / typing.get_origin(t) is tuple
OriginIsTuple(t) == t[1] = "Tuple"

\* typing.get_args(t) of a Tuple type whose arguments are plain classes
TupleArgs(t) == Tail(t)

\* tuple_to_list(tuple_type)
tuple_to_list(tuple_type) ==
    LET type_args == TupleArgs(tuple_type) IN
    IF type_args = <<>> THEN <<"List">>
    ELSE IF Len(type_args) = 1 THEN ListOf(<<type_args[1]>>)
    ELSE IF Len(type_args) = 2 /\ type_args[2] = "..." THEN ListOf(<<type_args[1]>>)
    ELSE ListOf(<<"Union">> \o type_args)

\* the text of a type inside an error message
RECURSIVE TypeRepr(_)
TypeRepr(t) ==
    IF Len(t) = 1 THEN t[1]
    ELSE IF t[1] \in {"Tuple", "Union"} THEN t[1] \o "[" \o Join(", ", Tail(t)) \o "]"
    ELSE t[1] \o "[" \o TypeRepr(Tail(t)) \o "]"

(***************************************************************************)
(* Outcomes of a call: a returned string, or a raised exception            *)
(***************************************************************************)

Returned(s) == [exc |-> "none", schema |-> s, msg |-> ""]
Raised(e, m) == [exc |-> e, schema |-> "", msg |-> m]

\* error_fn(what); the text of the signature that ends the message is elided
error_fn(what) ==
    Raised("ValueError", "infer_schema(func): " \o what \o " Got func with signature (...))")

\* parse_return(annotation, error_fn)
parse_return(annotation) ==
    IF annotation = <<"None">> THEN Returned("()")
    ELSE IF ~OriginIsTuple(annotation) THEN
        IF annotation \notin Keys(SUPPORTED_RETURN_TYPES)
        THEN error_fn("Return has unsupported type " \o TypeRepr(annotation) \o ".")
        ELSE Returned(Lookup(SUPPORTED_RETURN_TYPES, annotation))
    ELSE
        LET args == TupleArgs(annotation) IN
        IF \E i \in 1..Len(args) : <<args[i]>> \notin Keys(SUPPORTED_RETURN_TYPES)
        THEN error_fn("Return has unsupported type " \o TypeRepr(annotation) \o ".")
        ELSE Returned("(" \o Join(", ", [i \in 1..Len(args) |->
                                Lookup(SUPPORTED_RETURN_TYPES, <<args[i]>>)]) \o ")")

\* supported_param(param)
supported_param(param) == param.kind \in {"POSITIONAL_OR_KEYWORD", "KEYWORD_ONLY"}

(***************************************************************************)
(* infer_schema                                                            *)
(*                                                                         *)
(* A parameter is [name, kind, annotation, default]; a default value is    *)
(* [tag, n, s]: tag "empty" is inspect.Parameter.empty, "None" is None,    *)
(* "int" the int n, "bool" the bool n # 0, "float" the float n/2, "str"    *)
(* the string s, "dtype" the dtype torch.<s>, and "other" a value of any   *)
(* other type.  mutates_args is the set of the names listed.               *)
(***************************************************************************)

\* lines 90-105: the text of a default value, or the error for its type
default_repr(name, default) ==
    IF default.tag = "None" THEN Returned("None")
    ELSE IF default.tag = "int" THEN Returned(IntToStr(default.n))
    ELSE IF default.tag = "float" THEN Returned(FloatToStr(default.n))
    ELSE IF default.tag = "bool" THEN Returned(IF default.n # 0 THEN "True" ELSE "False")
    ELSE IF default.tag = "str" THEN Returned("\"" \o default.s \o "\"")
    ELSE IF default.tag = "dtype" THEN
        LET dtype_repr == "torch." \o default.s
            torch_dot == "torch."
        IN Returned(SubSeq(dtype_repr, Len(torch_dot) + 1, Len(dtype_repr)))
    ELSE error_fn("Parameter " \o name
                  \o " has an unsupported default value type. "
                  \o "Please file an issue on GitHub so we can prioritize this.")

\* mutated_type with one alias label for every position
mutated_type_one_label(schema_type, idx) ==
    "Tensor(a0!)" \o SubSeq(schema_type, Len("Tensor") + 1, Len(schema_type))

\* line 85: the schema type of a mutated parameter at position idx
mutated_type(schema_type, idx) ==
    "Tensor(a" \o IntToStr(idx) \o "!)" \o SubSeq(schema_type, Len("Tensor") + 1, Len(schema_type))

\* lines 51-105 of the loop body: the schema entry of the parameter at
\* 0-based position idx, or the exception raised on it
param_entry(param, idx, mutates_args) ==
    LET name == param.name
        annotation_type == param.annotation
    IN
    IF annotation_type = <<"empty">>
    THEN error_fn("Parameter " \o name \o " must have a type annotation.")
    ELSE IF annotation_type \notin Keys(SUPPORTED_PARAM_TYPES) THEN
        IF ~HasOrigin(annotation_type)
        THEN Raised("AttributeError", "type object has no attribute '__origin__'")
        ELSE IF OriginIsTuple(annotation_type) THEN
            LET list_type == tuple_to_list(annotation_type)
                example_type_str ==
                    IF list_type \in Keys(SUPPORTED_PARAM_TYPES)
                    THEN "For example, " \o TypeRepr(list_type) \o "."
                    ELSE ""
            IN error_fn("Parameter " \o name \o " has unsupported type "
                        \o TypeRepr(annotation_type)
                        \o ". We do not support Tuple inputs in schema. "
                        \o "As a workaround, please try to use List instead. "
                        \o example_type_str)
        ELSE error_fn("Parameter " \o name \o " has unsupported type "
                      \o TypeRepr(annotation_type) \o ".")
    ELSE
        LET base_type == Lookup(SUPPORTED_PARAM_TYPES, annotation_type)
            mutated == name \in mutates_args
            schema_type == IF mutated THEN mutated_type(base_type, idx) ELSE base_type
        IN
        IF mutated /\ ~StartsWith(base_type, "Tensor")
        THEN error_fn("Parameter " \o name \o " is in mutable_args but only "
                      \o "Tensors or collections of Tensors can be mutated")
        ELSE IF param.default.tag = "empty"
        THEN Returned(schema_type \o " " \o name)
        ELSE
            LET d == default_repr(name, param.default) IN
            IF d.exc # "none" THEN d
            ELSE Returned(schema_type \o " " \o name \o "=" \o d.schema)

\* star_entry without the saw_kwarg_only_arg test: a "*" before every
\* keyword-only parameter
star_entry_every(param, saw_kwarg_only_arg) ==
    IF param.kind = "KEYWORD_ONLY" THEN <<"*">> ELSE <<>>

\* lines 45-49: the "*" entry that precedes the first keyword-only parameter
star_entry(param, saw_kwarg_only_arg) ==
    IF param.kind = "KEYWORD_ONLY" /\ ~saw_kwarg_only_arg THEN <<"*">> ELSE <<>>

\* lines 38-105: the loop over sig.parameters from 1-based position i on;
\* params, seen_args and saw_kwarg_only_arg are the loop's locals
RECURSIVE param_loop(_, _, _, _, _, _)
param_loop(sig, mutates_args, i, params, seen_args, saw_kwarg_only_arg) ==
    IF i > Len(sig)
    THEN [exc |-> "none", msg |-> "", params |-> params, seen_args |-> seen_args]
    ELSE
        LET param == sig[i]
            e == param_entry(param, i - 1, mutates_args)
        IN
        IF ~supported_param(param)
        THEN [exc |-> "ValueError",
              msg |-> error_fn("We do not support positional-only args, varargs, or varkwargs.").msg,
              params |-> params, seen_args |-> seen_args]
        ELSE IF e.exc # "none"
        THEN [exc |-> e.exc, msg |-> e.msg, params |-> params, seen_args |-> seen_args]
        ELSE param_loop(sig, mutates_args, i + 1,
                        params \o star_entry(param, saw_kwarg_only_arg) \o <<e.schema>>,
                        seen_args \cup {param.name},
                        saw_kwarg_only_arg \/ param.kind = "KEYWORD_ONLY")

\* infer_schema(prototype_function, mutates_args) for a function whose
\* signature is sig with return annotation return_annotation
infer_schema(sig, return_annotation, mutates_args) ==
    LET l == param_loop(sig, mutates_args, 1, <<>>, {}, FALSE) IN
    IF l.exc # "none" THEN Raised(l.exc, l.msg)
    ELSE
        LET mutates_args_not_seen == mutates_args \ l.seen_args
            ret == parse_return(return_annotation)
        IN
        IF Cardinality(mutates_args_not_seen) > 0
        THEN error_fn("mutates_args were not found in the custom op's signature. "
                      \o "mutates_args should contain the names of all args that "
                      \o "the custom op mutates.")
        ELSE IF ret.exc # "none" THEN ret
        ELSE Returned("(" \o Join(", ", l.params) \o ") -> " \o ret.schema)

(***************************************************************************)
(* The two schema inspectors                                               *)
(***************************************************************************)

\* schema.split("->")[0].split("(")[1].split(")")[0].split(",")
schema_inputs(schema) ==
    Split(Split(Split(Split(schema, "->")[1], "(")[2], ")")[1], ",")

\* has_tensor_arg(schema)
has_tensor_arg(schema) ==
    LET inputs == schema_inputs(schema)
        input_types == [k \in 1..Len(inputs) |-> Split(Strip(inputs[k]), " ")[1]]
    IN \E k \in 1..Len(input_types) : Contains(input_types[k], "Tensor")

\* get_device_arg_id(schema): the 0-based index of the first input equal to
\* "Device device", or -1 for None
get_device_arg_id(schema) ==
    LET inputs == schema_inputs(schema)
        hits == {k \in 1..Len(inputs) : "Device device" = Strip(inputs[k])}
    IN IF hits = {} THEN -1
       ELSE (CHOOSE k \in hits : \A j \in hits : k <= j) - 1

(***************************************************************************)
(* The calls explored                                                      *)
(***************************************************************************)

MaxParams  == 2     \* parameters of a function
MaxStrLen  == 1     \* characters of a string default
MaxMutates == 2     \* names listed in mutates_args

\* the name of the i-th parameter unless it is called device
PositionNames == <<"x", "y", "z", "w">>

\* a name that no parameter has
AbsentName == "u"

SupportedKinds == {"POSITIONAL_OR_KEYWORD", "KEYWORD_ONLY"}

Kinds == SupportedKinds \cup {"POSITIONAL_ONLY", "VAR_POSITIONAL", "VAR_KEYWORD"}

\* the place of a kind in the order Python's grammar imposes on a signature
KindRank(k) ==
    CASE k = "POSITIONAL_ONLY" -> 1
      [] k = "POSITIONAL_OR_KEYWORD" -> 2
      [] k = "VAR_POSITIONAL" -> 3
      [] k = "KEYWORD_ONLY" -> 4
      [] k = "VAR_KEYWORD" -> 5

StrChars == {"a", "("}

\* the strings over StrChars of length at most n
RECURSIVE StringsUpTo(_)
StringsUpTo(n) ==
    IF n = 0 THEN {""}
    ELSE LET shorter == StringsUpTo(n - 1) IN
         shorter \cup {s \o c : s \in shorter, c \in StrChars}

NoDefault == [tag |-> "empty", n |-> 0, s |-> ""]

\* the default values a parameter of the given annotation is given
DefaultInputs(annotation) ==
    {NoDefault} \cup
    CASE annotation = <<"Tensor">> -> {[tag |-> "other", n |-> 0, s |-> ""]}
      [] annotation = <<"Optional", "List", "int">> -> {[tag |-> "None", n |-> 0, s |-> ""]}
      [] annotation = <<"int">> -> {[tag |-> "int", n |-> -10, s |-> ""],
                                    [tag |-> "float", n |-> 21, s |-> ""],
                                    [tag |-> "bool", n |-> 1, s |-> ""]}
      [] annotation = <<"str">> ->
            {[tag |-> "str", n |-> 0, s |-> t] : t \in StringsUpTo(MaxStrLen)}
      [] annotation = <<"dtype">> -> {[tag |-> "dtype", n |-> 0, s |-> "float32"]}
      [] OTHER -> {}

\* the parameters that can stand at 1-based position i
ParamInputs(i, kinds, annotations, withDefaults, withDevice) ==
    UNION { { [name |-> nm, kind |-> k, annotation |-> a, default |-> d] :
                nm \in {PositionNames[i]} \cup (IF withDevice THEN {"device"} ELSE {}),
                k \in kinds,
                d \in IF withDefaults THEN DefaultInputs(a) ELSE {NoDefault} }
            : a \in annotations }

HasDefault(param) == param.default.tag # "empty"
Positional(param) == param.kind \in {"POSITIONAL_ONLY", "POSITIONAL_OR_KEYWORD"}

\* whether inspect.signature can return sig followed by param: distinct
\* names, kinds in order, at most one *args and one **kwargs, neither with a
\* default, and no positional parameter without a default after one with a
\* default
Extends(sig, param) ==
    /\ param.kind \in {"VAR_POSITIONAL", "VAR_KEYWORD"} => ~HasDefault(param)
    /\ \A i \in 1..Len(sig) :
          /\ sig[i].name # param.name
          /\ KindRank(sig[i].kind) <= KindRank(param.kind)
          /\ sig[i].kind = param.kind => param.kind \notin {"VAR_POSITIONAL", "VAR_KEYWORD"}
          /\ (Positional(sig[i]) /\ Positional(param) /\ HasDefault(sig[i])) => HasDefault(param)

\* the signatures of exactly n parameters over the given choices
RECURSIVE SignaturesOfLen(_, _, _, _, _)
SignaturesOfLen(n, kinds, annotations, withDefaults, withDevice) ==
    IF n = 0 THEN {<<>>}
    ELSE LET shorter == SignaturesOfLen(n - 1, kinds, annotations, withDefaults, withDevice)
             last == ParamInputs(n, kinds, annotations, withDefaults, withDevice)
         IN UNION { {Append(sg, param) : param \in {q \in last : Extends(sg, q)}} : sg \in shorter }

\* the signatures of at most MaxParams parameters over the given choices
Signatures(kinds, annotations, withDefaults, withDevice) ==
    UNION { SignaturesOfLen(n, kinds, annotations, withDefaults, withDevice) : n \in 0..MaxParams }

\* the values of mutates_args with at most k names, each a parameter's name
\* or the absent name
MutatesInputs(sig, k) ==
    {m \in SUBSET ({sig[i].name : i \in 1..Len(sig)} \cup {AbsentName}) : Cardinality(m) <= k}

\* Rendering: supported kinds, the annotations that are given defaults, every
\* form of return annotation, and the default mutates_args
RenderAnnotations ==
    { <<"Tensor">>, <<"Optional", "List", "int">>, <<"int">>, <<"str">>, <<"dtype">> }

\* return annotations: None, a key of SUPPORTED_RETURN_TYPES, a Tuple of
\* keys, and none
ReturnInputs == { <<"None">>, <<"Tensor">>, <<"Tuple", "Tensor", "int">>, <<"empty">> }

\* Mutation: the four Tensor types and two others, parameters that may be
\* called device, no defaults, any mutates_args
MutationAnnotations ==
    { <<"Tensor">>, <<"Optional", "Tensor">>, <<"List", "Tensor">>,
      <<"Sequence", "Optional", "Tensor">>, <<"int">>, <<"device">> }

\* Rejection: every kind, no defaults; annotations that are keys of SUPPORTED_PARAM_TYPES,
\* a plain class and a List generic that are not, a Tuple generic, and none
RejectionAnnotations ==
    { <<"Tensor">>, <<"int">>, <<"dict">>, <<"List", "str">>,
      <<"Tuple", "int", "...">>, <<"empty">> }

(***************************************************************************)
(* State machine: one call of infer_schema, then one of the inspectors on  *)
(* the schema it returned                                                  *)
(***************************************************************************)

VARIABLES sig, return_annotation, mutates_args, pc, result, tensor_arg, device_arg_id

vars == <<sig, return_annotation, mutates_args, pc, result, tensor_arg, device_arg_id>>

NoResult == [exc |-> "unset", schema |-> "", msg |-> ""]

\* value of device_arg_id before get_device_arg_id has run; None is -1
Unset == -2

InitRendering ==
    /\ sig \in Signatures(SupportedKinds, RenderAnnotations, TRUE, FALSE)
    /\ return_annotation \in ReturnInputs
    /\ mutates_args = {}

InitMutation ==
    /\ sig \in Signatures(SupportedKinds, MutationAnnotations, FALSE, TRUE)
    /\ return_annotation = <<"None">>
    /\ mutates_args \in MutatesInputs(sig, MaxMutates)

InitRejection ==
    /\ sig \in Signatures(Kinds, RejectionAnnotations, FALSE, FALSE)
    /\ return_annotation = <<"None">>
    /\ mutates_args \in MutatesInputs(sig, 1)

Init ==
    /\ InitRendering \/ InitMutation \/ InitRejection
    /\ pc = "start"
    /\ result = NoResult
    /\ tensor_arg = "unset"
    /\ device_arg_id = Unset

InferSchema ==
    /\ pc = "start"
    /\ result' = infer_schema(sig, return_annotation, mutates_args)
    /\ pc' = IF result'.exc = "none" THEN "returned" ELSE "raised"
    /\ UNCHANGED <<sig, return_annotation, mutates_args, tensor_arg, device_arg_id>>

HasTensorArg ==
    /\ pc = "returned"
    /\ tensor_arg' = IF has_tensor_arg(result.schema) THEN "True" ELSE "False"
    /\ pc' = "done"
    /\ UNCHANGED <<sig, return_annotation, mutates_args, result, device_arg_id>>

GetDeviceArgId ==
    /\ pc = "returned"
    /\ device_arg_id' = get_device_arg_id(result.schema)
    /\ pc' = "done"
    /\ UNCHANGED <<sig, return_annotation, mutates_args, result, tensor_arg>>

Next == InferSchema \/ HasTensorArg \/ GetDeviceArgId

Spec == Init /\ [][Next]_vars

(***************************************************************************)
(* Properties                                                              *)
(***************************************************************************)

Called == pc # "start"
ReturnedSchema == Called /\ result.exc = "none"

Positions == 1..Len(sig)
SchemaType(i) == Lookup(SUPPORTED_PARAM_TYPES, sig[i].annotation)
TensorType(i) ==
    /\ sig[i].annotation \in Keys(SUPPORTED_PARAM_TYPES)
    /\ StartsWith(SchemaType(i), "Tensor")

\* the text a default value has in a schema
ValueText(d) ==
    CASE d.tag = "None" -> "None"
      [] d.tag = "int" -> IntToStr(d.n)
      [] d.tag = "float" -> FloatToStr(d.n)
      [] d.tag = "bool" -> (IF d.n = 0 THEN "False" ELSE "True")
      [] d.tag = "str" -> "\"" \o d.s \o "\""
      [] d.tag = "dtype" -> d.s

\* "<schema type> <name>" or "<schema type> <name>=<default>"
Rendered(i) ==
    SchemaType(i) \o " " \o sig[i].name
        \o (IF HasDefault(sig[i]) THEN "=" \o ValueText(sig[i].default) ELSE "")

FirstKeywordOnly(i) ==
    /\ sig[i].kind = "KEYWORD_ONLY"
    /\ \A j \in 1..(i - 1) : sig[j].kind # "KEYWORD_ONLY"

SupportedFunction ==
    /\ \A i \in Positions :
          /\ sig[i].kind \in SupportedKinds
          /\ sig[i].annotation \in Keys(SUPPORTED_PARAM_TYPES)
          /\ sig[i].default.tag \in {"empty", "None", "int", "float", "bool", "str", "dtype"}
    /\ parse_return(return_annotation).exc = "none"

\* C1 as stated: for a function of supported parameters, defaults and return
\* annotation, infer_schema(f) returns "(" + P + ") -> " + R with P the
\* parameters in signature order joined by ", ", each "<schema type> <name>"
\* or "<schema type> <name>=<default>".
C1_AsStated ==
    (Called /\ SupportedFunction /\ mutates_args = {}) =>
        result = Returned("(" \o Join(", ", [i \in Positions |-> Rendered(i)])
                          \o ") -> " \o parse_return(return_annotation).schema)

\* the schema type of parameter i with its mutation marker, if it has one
MarkedType(i) ==
    IF sig[i].name \in mutates_args
    THEN "Tensor(a" \o IntToStr(i - 1) \o "!)"
            \o SubSeq(SchemaType(i), Len("Tensor") + 1, Len(SchemaType(i)))
    ELSE SchemaType(i)

RenderedMarked(i) ==
    MarkedType(i) \o " " \o sig[i].name
        \o (IF HasDefault(sig[i]) THEN "=" \o ValueText(sig[i].default) ELSE "")

ValidMutates == \A nm \in mutates_args : \E i \in Positions : sig[i].name = nm /\ TensorType(i)

\* C1 amended: for a function of supported parameters, defaults and return
\* annotation, and mutates_args naming only Tensor-typed parameters,
\* infer_schema returns "(" + P + ") -> " + R where P has a "*" entry right
\* before the first keyword-only parameter and the type of a parameter named
\* in mutates_args carries its marker.
C1_SchemaText ==
    (Called /\ SupportedFunction /\ ValidMutates) =>
        result = Returned("(" \o Join(", ", [i \in Positions |->
                                (IF FirstKeywordOnly(i) THEN "*, " ELSE "") \o RenderedMarked(i)])
                          \o ") -> " \o parse_return(return_annotation).schema)

C1_Witness ==
    /\ ReturnedSchema /\ SupportedFunction /\ mutates_args = {}
    /\ Len(sig) >= 2
    /\ sig[1].kind = "POSITIONAL_OR_KEYWORD"
    /\ sig[2].kind = "KEYWORD_ONLY" /\ HasDefault(sig[2])
    /\ return_annotation = <<"Tuple", "Tensor", "int">>

\* the entries between the schema's outer parentheses, the "*" entry dropped
ParamEntries(schema) ==
    LET inner == SubSeq(schema, 2, FindFrom(schema, ") -> ", 1) - 1) IN
    IF inner = "" THEN <<>> ELSE SelectSeq(Split(inner, ", "), LAMBDA e : e # "*")

\* the type of an entry, and the alias label of a type "Tensor(<label>!)..."
EntryType(entry) == Split(entry, " ")[1]
AliasLabel(type) == SubSeq(type, FindFrom(type, "(", 1) + 1, FindFrom(type, "!", 1) - 1)

\* C2: in a returned schema the parameter at 0-based position idx that is
\* named in mutates_args has type "Tensor(a<idx>!)" followed by the rest of
\* its schema type ("", "?", "[]" or "?[]"), a parameter not named there has
\* no "!" in its type, and no two mutated parameters share an alias label.
C2_MutationMarkers ==
    ReturnedSchema =>
        LET entries == ParamEntries(result.schema) IN
        /\ Len(entries) = Len(sig)
        /\ \A i \in Positions :
              LET rest == SubSeq(SchemaType(i), Len("Tensor") + 1, Len(SchemaType(i))) IN
              IF sig[i].name \in mutates_args
              THEN /\ EntryType(entries[i]) = "Tensor(a" \o IntToStr(i - 1) \o "!)" \o rest
                   /\ rest \in {"", "?", "[]", "?[]"}
              ELSE ~Contains(EntryType(entries[i]), "!")
        /\ \A i, j \in Positions :
              (i # j /\ sig[i].name \in mutates_args /\ sig[j].name \in mutates_args)
                  => AliasLabel(EntryType(entries[i])) # AliasLabel(EntryType(entries[j]))

C2_Witness ==
    /\ ReturnedSchema
    /\ \E i, j \in Positions :
          /\ i < j
          /\ sig[i].name \in mutates_args /\ sig[j].name \in mutates_args
          /\ sig[j].kind = "KEYWORD_ONLY"
          /\ sig[j].annotation = <<"Sequence", "Optional", "Tensor">>

\* C3: has_tensor_arg of a returned schema is True exactly when some
\* parameter has a schema type involving Tensor.
C3_HasTensorArg ==
    tensor_arg # "unset" =>
        (tensor_arg = "True" <=> \E i \in Positions : Contains(SchemaType(i), "Tensor"))

DeviceParam(i) == sig[i].name = "device" /\ sig[i].annotation = <<"device">>

\* C4: get_device_arg_id of a returned schema is None exactly when no
\* parameter is named device and annotated torch.device.
C4_DeviceArgFound ==
    device_arg_id # Unset =>
        (device_arg_id = -1 <=> ~\E i \in Positions : DeviceParam(i))

Rejected(i) ==
    \/ sig[i].kind \notin SupportedKinds
    \/ sig[i].annotation = <<"empty">>
    \/ sig[i].annotation \notin Keys(SUPPORTED_PARAM_TYPES)

\* C5: for a function with a parameter of unsupported kind, without
\* annotation or with an annotation that is not a key of
\* SUPPORTED_PARAM_TYPES, infer_schema raises ValueError with a message that
\* starts with "infer_schema(func):", and no other exception.
C5_RejectsWithValueError ==
    (Called /\ \E i \in Positions : Rejected(i)) =>
        /\ result.exc = "ValueError"
        /\ StartsWith(result.msg, "infer_schema(func):")

\* C6: infer_schema returns a schema only if every name in mutates_args names
\* a parameter whose schema type starts with Tensor, and raises ValueError
\* otherwise.
C6_MutatesChecked ==
    Called =>
        /\ result.exc = "none" => ValidMutates
        /\ ~ValidMutates => result.exc = "ValueError"

\* C7: an integer returned by get_device_arg_id for a returned schema is the
\* 0-based signature position of the parameter named device and annotated
\* torch.device.
C7_DeviceArgPosition ==
    device_arg_id >= 0 =>
        /\ device_arg_id + 1 \in Positions
        /\ DeviceParam(device_arg_id + 1)

====
